---- MODULE Spec2Model ----
(***************************************************************************)
(* Model of src/main.py: the chat session manager (FastAPI handlers over   *)
(* three SQLite tables and a remote completion provider).                  *)
(*                                                                         *)
(* Granularity.  Every `with sqlite3.connect(DB_PATH) as conn:` block is   *)
(* one action: the block's first statement is a write (INSERT OR IGNORE,   *)
(* INSERT or DELETE), which makes the sqlite3 module open a transaction    *)
(* and SQLite take the database write lock until the commit, and a block   *)
(* that raises is rolled back as a whole.  The read block of send_message  *)
(* is a single SELECT.  A turn (send_message) is therefore three steps:    *)
(* ensure (lines 142-149), read and prompt construction (151-166), and     *)
(* provider call followed by the append (168-191); handlers in other       *)
(* worker processes may run between the steps.                             *)
(***************************************************************************)
EXTENDS Integers, Sequences, FiniteSets, TLC

VARIABLES
    users,            \* table users: set of email
    sessions,         \* table sessions: set of rows
    messages,         \* table messages: set of rows
    sqlite_sequence,  \* last AUTOINCREMENT id handed out for messages
    minted,           \* number of uuid4 values drawn so far
    turn,             \* per in-flight send_message call: position and locals
    last,             \* the step that ran last, with the response it returned
    firstOwner,       \* history: session id -> user that first created it
    turnsSince,       \* history: session id -> successful turns since its last clear
    race              \* history: two turns that read one snapshot of a session

vars == <<users, sessions, messages, sqlite_sequence, minted, turn, last,
          firstOwner, turnsSince, race>>

----------------------------------------------------------------------------
(* Bounds of the model *)

MaxMessages == 3
MaxUuid == 2

(* Input domains *)

None == "None"
Users == {"u1", "u2"}
ExplicitIds == {"", "s1", "s2"}
Times == {1, 2}
Texts == {"Hello", "How are you?"}
Replies == {"Hi there"}
Personas == {"Default", "Expert", "Creative", "Pirate", "expert", ""}
Windows == {-1, 0, 1, 2}
Turns == {1, 2}
TextOf == [u \in Users |-> IF u = "u1" THEN "Hello" ELSE "How are you?"]

Uuid(k) == "uuid-" \o ToString(k)
AllIds == ExplicitIds \cup {Uuid(k) : k \in 1..MaxUuid}
MintedIds == {Uuid(k) : k \in 1..minted}

Min(a, b) == IF a <= b THEN a ELSE b
Max(a, b) == IF a >= b THEN a ELSE b

----------------------------------------------------------------------------
(* Request defaults of SendMessageRequest *)

DefaultModel == "llama3-70b-8192"
DefaultPersona == "Default"
DefaultMemoryLength == 5

SendMessageRequest(message, session_id, persona, memory_length, user_email) ==
    [message |-> message, session_id |-> session_id, model |-> DefaultModel,
     persona |-> persona, memory_length |-> memory_length,
     user_email |-> user_email]

----------------------------------------------------------------------------
(* get_custom_prompt *)

DefaultInstruction ==
    "You are a friendly and helpful AI assistant, providing clear, concise, and accurate responses. Focus on being approachable and ensuring the user feels understood and supported."
ExpertInstruction ==
    "You are a highly knowledgeable and authoritative expert across various fields. Offer in-depth, precise, and technical explanations, citing examples or relevant research when necessary. Avoid jargon when possible, but feel free to introduce advanced concepts where appropriate."
CreativeInstruction ==
    "You are an imaginative and inventive AI with a flair for creative problem-solving and thinking outside the box. Use metaphors, vivid descriptions, and unconventional ideas to inspire and captivate the user. Feel free to suggest unique approaches or surprising solutions to problems."

\* Faulty variant of get_custom_prompt: personas.get(persona, ""), no instruction
\* for an identifier that is not a key
get_custom_prompt_no_default(persona) ==
    CASE persona = "Default" -> DefaultInstruction
      [] persona = "Expert" -> ExpertInstruction
      [] persona = "Creative" -> CreativeInstruction
      [] OTHER -> ""

get_custom_prompt(persona) ==
    CASE persona = "Default" -> DefaultInstruction
      [] persona = "Expert" -> ExpertInstruction
      [] persona = "Creative" -> CreativeInstruction
      [] OTHER -> DefaultInstruction

----------------------------------------------------------------------------
(* SQL statements of the handlers *)

\* sessions.session_id TEXT PRIMARY KEY: a second row with the id is refused
PrimaryKeyConflict(session_id) ==
    \E s \in sessions : s.session_id = session_id

\* Faulty variant of SelectSession: the two query parameters bound in the wrong order
SelectSessionSwapped(session_id, user_email) ==
    {s \in sessions : s.session_id = user_email /\ s.user_email = session_id}

\* SELECT session_id FROM sessions WHERE session_id = ? AND user_email = ?
SelectSession(session_id, user_email) ==
    {s \in sessions : s.session_id = session_id /\ s.user_email = user_email}

\* f"Chat {datetime.now().strftime('%Y-%m-%d %H:%M')}"
Title(now) == <<"Chat", now>>

SessionRow(session_id, user_email, now) ==
    [session_id |-> session_id, user_email |-> user_email,
     title |-> Title(now), start_time |-> now]

\* Faulty variant of InsertSession: INSERT OR IGNORE, a conflicting row is skipped
InsertOrIgnoreSession(session_id, user_email, now) ==
    IF PrimaryKeyConflict(session_id)
    THEN [ok |-> TRUE, sessions |-> sessions]
    ELSE [ok |-> TRUE,
          sessions |-> sessions \cup {SessionRow(session_id, user_email, now)}]

\* Faulty variant of InsertSession: INSERT OR REPLACE, a conflicting row is replaced
InsertOrReplaceSession(session_id, user_email, now) ==
    [ok |-> TRUE,
     sessions |-> {s \in sessions : s.session_id # session_id}
                     \cup {SessionRow(session_id, user_email, now)}]

\* INSERT INTO sessions ... : raises IntegrityError on a primary key conflict
InsertSession(session_id, user_email, now) ==
    IF PrimaryKeyConflict(session_id)
    THEN [ok |-> FALSE, sessions |-> sessions]
    ELSE [ok |-> TRUE,
          sessions |-> sessions \cup {SessionRow(session_id, user_email, now)}]

\* The ensure block: INSERT OR IGNORE the user, SELECT the (id, user) row,
\* INSERT the session when the SELECT found none; rolled back when it raises.
EnsureSession(session_id, user_email, now) ==
    LET found == SelectSession(session_id, user_email) # {}
        ins == InsertSession(session_id, user_email, now)
    IN  IF found
        THEN [ok |-> TRUE, created |-> FALSE,
              users |-> users \cup {user_email}, sessions |-> sessions]
        ELSE IF ins.ok
        THEN [ok |-> TRUE, created |-> TRUE,
              users |-> users \cup {user_email}, sessions |-> ins.sessions]
        ELSE [ok |-> FALSE, created |-> FALSE,
              users |-> users, sessions |-> sessions]

MessagesOf(session_id) == {m \in messages : m.session_id = session_id}

\* SELECT COUNT(*) FROM messages WHERE session_id = ?
CountMessages(session_id) == Cardinality(MessagesOf(session_id))

\* The table scan feeding the sorter: rows in rowid (id) order
RECURSIVE RowidScan(_)
RowidScan(rows) ==
    IF rows = {} THEN <<>>
    ELSE LET first == CHOOSE r \in rows : \A q \in rows : r.id <= q.id
         IN  <<first>> \o RowidScan(rows \ {first})

\* The sorter keeps rows with an equal key in the order they were fed
SorterInsert(sorted, r) ==
    LET k == Cardinality({i \in 1..Len(sorted) :
                             sorted[i].timestamp <= r.timestamp})
    IN  SubSeq(sorted, 1, k) \o <<r>> \o SubSeq(sorted, k + 1, Len(sorted))

RECURSIVE SorterRun(_, _)
SorterRun(scan, sorted) ==
    IF scan = <<>> THEN sorted
    ELSE SorterRun(Tail(scan), SorterInsert(sorted, Head(scan)))

\* Faulty variant of OrderByTimestamp: the ORDER BY clause left out
Unordered(rows) == RowidScan(rows)

\* ... FROM messages WHERE session_id = ? ORDER BY timestamp
OrderByTimestamp(rows) == SorterRun(RowidScan(rows), <<>>)

ListMessages(session_id) == OrderByTimestamp(MessagesOf(session_id))

\* SELECT human, ai ... (send_message)
HumanAi(rows) ==
    [i \in 1..Len(rows) |-> [human |-> rows[i].human, ai |-> rows[i].ai]]

\* SELECT human, ai, timestamp ... -> ChatMessage (get_or_create_session)
ChatMessages(rows) ==
    [i \in 1..Len(rows) |->
        [human |-> rows[i].human, ai |-> rows[i].ai,
         timestamp |-> rows[i].timestamp]]

\* SELECT start_time FROM sessions WHERE session_id = ?  (fetchone()[0])
SelectStartTime(rows, session_id) ==
    (CHOOSE s \in rows : s.session_id = session_id).start_time

\* Faulty variant of MessageRow: the human and ai values bound in the wrong order
MessageRowSwapped(id, session_id, human, ai, now) ==
    [id |-> id, session_id |-> session_id, human |-> ai, ai |-> human,
     timestamp |-> now]

\* INSERT INTO messages (session_id, human, ai, timestamp) VALUES (?, ?, ?, ?)
MessageRow(id, session_id, human, ai, now) ==
    [id |-> id, session_id |-> session_id, human |-> human, ai |-> ai,
     timestamp |-> now]

----------------------------------------------------------------------------
(* Prompt construction of send_message *)

\* Faulty variant of SliceFromMinus: history[:n], the first n entries
SliceFirst(history, n) ==
    SubSeq(history, 1, Min(Max(n, 0), Len(history)))

\* Python's history[-n:]
SliceFromMinus(history, n) ==
    LET len == Len(history)
        start == 0 - n
        lo == IF start < 0 THEN Max(start + len, 0) ELSE Min(start, len)
    IN  SubSeq(history, lo + 1, len)

RECURSIVE AppendExchanges(_, _)
AppendExchanges(msgs, window) ==
    IF window = <<>> THEN msgs
    ELSE AppendExchanges(
            msgs \o <<[role |-> "user", content |-> Head(window).human],
                      [role |-> "assistant", content |-> Head(window).ai]>>,
            Tail(window))

BuildMessages(persona, history, memory_length, message) ==
    LET system_prompt == get_custom_prompt(persona)
        m0 == IF system_prompt # ""
              THEN <<[role |-> "system", content |-> system_prompt]>>
              ELSE <<>>
        m1 == AppendExchanges(m0, SliceFromMinus(history, memory_length))
    IN  m1 \o <<[role |-> "user", content |-> message]>>

----------------------------------------------------------------------------
(* State of a send_message call and the record of the last step *)

NoRequest == SendMessageRequest("", None, DefaultPersona, DefaultMemoryLength, None)

\* txn: the call has an open write transaction on its connection, and with
\* it the write lock of the database file
IdleTurn ==
    [pc |-> "idle", req |-> NoRequest, history |-> <<>>, messages |-> <<>>,
     wrote |-> FALSE, txn |-> FALSE]

InFlight == {t \in Turns : turn[t].pc # "idle"}

\* The calls holding the write lock; a write statement of another connection
\* proceeds only when there is none
Writers == {t \in Turns : turn[t].txn}

NoPrev ==
    [op |-> "other", status |-> 0, session_id |-> None, rows |-> {},
     msgDelta |-> 0]

Step(op, status, error, req_session_id, req_user_email) ==
    [op |-> op, status |-> status, error |-> error,
     req_session_id |-> req_session_id, req_user_email |-> req_user_email,
     req_message |-> "", response |-> "",
     session_id |-> None, chat_history |-> <<>>, message_count |-> 0,
     start_time |-> 0, sessions |-> <<>>,
     created |-> FALSE, wrote |-> FALSE, msgDelta |-> 0,
     rowsBefore |-> {}, prev |-> NoPrev]

\* What a POST /chat/session call remembers of the step right before it: a
\* call with the same session id and user, or a clear of the same session id
Before(req_session_id, user_email) ==
    IF \/ /\ last.op = "session"
          /\ last.req_session_id = req_session_id
          /\ last.req_user_email = user_email
       \/ /\ last.op = "clear"
          /\ last.req_session_id = req_session_id
    THEN [op |-> last.op, status |-> last.status,
          session_id |-> last.session_id, rows |-> last.rowsBefore,
          msgDelta |-> last.msgDelta]
    ELSE NoPrev

RowsWithId(rows, session_id) == {s \in rows : s.session_id = session_id}

RecordOwner(rows) ==
    [id \in AllIds |->
        IF firstOwner[id] = None /\ RowsWithId(rows, id) # {}
        THEN (CHOOSE s \in rows : s.session_id = id).user_email
        ELSE firstOwner[id]]

\* The record of two turns on one session that were both waiting on the
\* provider with the same history read: what the first to append returned,
\* the turn still waiting, whether the session was cleared before the second
\* appended, and what the second returned
NoRace ==
    [phase |-> "none", waiting |-> 0, session_id |-> None,
     first_count |-> 0, first_id |-> 0, second_count |-> 0, second_id |-> 0,
     cleared |-> FALSE]

----------------------------------------------------------------------------
Init ==
    /\ users = {}
    /\ sessions = {}
    /\ messages = {}
    /\ sqlite_sequence = 0
    /\ minted = 0
    /\ turn = [t \in Turns |-> IdleTurn]
    /\ last = Step("init", 0, "", None, None)
    /\ firstOwner = [id \in AllIds |-> None]
    /\ turnsSince = [id \in AllIds |-> 0]
    /\ race = NoRace

----------------------------------------------------------------------------
(* POST /api/chat/send *)

\* Faulty variant of SendEnsure: conn.commit() left out and the connection
\* kept, the transaction stays open over the rest of the call
SendEnsureNoCommit(t, req, now) ==
    /\ turn[t].pc = "idle"
    /\ sqlite_sequence + Cardinality(InFlight) < MaxMessages
    /\ Writers = {}
    /\ LET e == EnsureSession(req.session_id, req.user_email, now)
       IN  /\ users' = e.users
           /\ sessions' = e.sessions
           /\ IF e.ok
              THEN /\ turn' = [turn EXCEPT ![t] =
                         [pc |-> "ensured", req |-> req, history |-> <<>>,
                          messages |-> <<>>,
                          wrote |-> (e.users # users \/ e.sessions # sessions),
                          txn |-> TRUE]]
                   /\ last' = Step("send.ensure", 0, "", None, None)
              ELSE /\ turn' = turn
                   /\ last' = [Step("send", 500, "IntegrityError",
                                    req.session_id, req.user_email)
                                 EXCEPT !.req_message = req.message,
                                        !.rowsBefore =
                                            RowsWithId(sessions, req.session_id)]
    /\ UNCHANGED <<messages, sqlite_sequence, minted>>

\* lines 138-149: the ensure block; an IntegrityError ends the call with 500
SendEnsure(t, req, now) ==
    /\ turn[t].pc = "idle"
    /\ sqlite_sequence + Cardinality(InFlight) < MaxMessages
    /\ Writers = {}
    /\ LET e == EnsureSession(req.session_id, req.user_email, now)
       IN  /\ users' = e.users
           /\ sessions' = e.sessions
           /\ IF e.ok
              THEN /\ turn' = [turn EXCEPT ![t] =
                         [pc |-> "ensured", req |-> req, history |-> <<>>,
                          messages |-> <<>>,
                          wrote |-> (e.users # users \/ e.sessions # sessions),
                          txn |-> FALSE]]
                   /\ last' = Step("send.ensure", 0, "", None, None)
              ELSE /\ turn' = turn
                   /\ last' = [Step("send", 500, "IntegrityError",
                                    req.session_id, req.user_email)
                                 EXCEPT !.req_message = req.message,
                                        !.rowsBefore =
                                            RowsWithId(sessions, req.session_id)]
    /\ UNCHANGED <<messages, sqlite_sequence, minted>>

\* lines 151-166: read the history and build the provider's messages
SendRead(t) ==
    /\ turn[t].pc = "ensured"
    /\ LET req == turn[t].req
           history == HumanAi(ListMessages(req.session_id))
       IN  /\ turn' = [turn EXCEPT ![t].pc = "calling",
                                   ![t].history = history,
                                   ![t].messages =
                                       BuildMessages(req.persona, history,
                                                     req.memory_length,
                                                     req.message)]
           /\ last' = Step("send.read", 0, "", None, None)
    /\ UNCHANGED <<users, sessions, messages, sqlite_sequence, minted>>

\* Faulty variant of SendStore: the count answered is taken from the history
\* read before the provider call
SendStoreCountsSnapshot(t, reply, now) ==
    /\ turn[t].pc = "calling"
    /\ Writers \subseteq {t}
    /\ LET req == turn[t].req
           row == MessageRow(sqlite_sequence + 1, req.session_id, req.message,
                             reply, now)
           after == messages \cup {row}
       IN  /\ messages' = after
           /\ sqlite_sequence' = sqlite_sequence + 1
           /\ last' = [Step("send", 200, "", req.session_id, req.user_email)
                         EXCEPT !.req_message = req.message,
                                !.response = reply,
                                !.session_id = req.session_id,
                                !.message_count = Len(turn[t].history) + 1,
                                !.wrote = turn[t].wrote,
                                !.msgDelta = Cardinality(after)
                                               - Cardinality(messages)]
    /\ turn' = [turn EXCEPT ![t] = IdleTurn]
    /\ UNCHANGED <<users, sessions, minted>>

\* Faulty variant of SendStore: the exchange overwrites the session's stored
\* rows instead of being added to them
SendStoreOverwrites(t, reply, now) ==
    /\ turn[t].pc = "calling"
    /\ Writers \subseteq {t}
    /\ LET req == turn[t].req
           row == MessageRow(sqlite_sequence + 1, req.session_id, req.message,
                             reply, now)
           after == {m \in messages : m.session_id # req.session_id} \cup {row}
       IN  /\ messages' = after
           /\ sqlite_sequence' = sqlite_sequence + 1
           /\ last' = [Step("send", 200, "", req.session_id, req.user_email)
                         EXCEPT !.req_message = req.message,
                                !.response = reply,
                                !.session_id = req.session_id,
                                !.message_count =
                                    Cardinality({m \in after :
                                        m.session_id = req.session_id}),
                                !.wrote = turn[t].wrote,
                                !.msgDelta = Cardinality(after)
                                               - Cardinality(messages)]
    /\ turn' = [turn EXCEPT ![t] = IdleTurn]
    /\ UNCHANGED <<users, sessions, minted>>

\* lines 168-191: the provider returned `reply`; append it and answer
SendStore(t, reply, now) ==
    /\ turn[t].pc = "calling"
    /\ Writers \subseteq {t}
    /\ LET req == turn[t].req
           row == MessageRow(sqlite_sequence + 1, req.session_id, req.message,
                             reply, now)
           after == messages \cup {row}
       IN  /\ messages' = after
           /\ sqlite_sequence' = sqlite_sequence + 1
           /\ last' = [Step("send", 200, "", req.session_id, req.user_email)
                         EXCEPT !.req_message = req.message,
                                !.response = reply,
                                !.session_id = req.session_id,
                                !.message_count =
                                    Cardinality({m \in after :
                                        m.session_id = req.session_id}),
                                !.wrote = turn[t].wrote,
                                !.msgDelta = Cardinality(after)
                                               - Cardinality(messages)]
    /\ turn' = [turn EXCEPT ![t] = IdleTurn]
    /\ UNCHANGED <<users, sessions, minted>>

\* Faulty variant of ProviderFail: the human text is stored although the call failed
ProviderFailStoresHuman(t) ==
    /\ turn[t].pc = "calling"
    /\ LET req == turn[t].req
       IN  /\ messages' = messages \cup
                  {MessageRow(sqlite_sequence + 1, req.session_id, req.message,
                              "", 1)}
           /\ last' = [Step("send", 500, "ProviderError", req.session_id,
                             req.user_email)
                          EXCEPT !.req_message = req.message,
                                 !.wrote = turn[t].wrote]
    /\ sqlite_sequence' = sqlite_sequence + 1
    /\ turn' = [turn EXCEPT ![t] = IdleTurn]
    /\ UNCHANGED <<users, sessions, minted>>

\* lines 169-175, 193-194: the provider call raised (network failure,
\* timeout, malformed body); the handler answers 500
ProviderFail(t) ==
    /\ turn[t].pc = "calling"
    /\ LET req == turn[t].req
       IN  last' = [Step("send", 500, "ProviderError", req.session_id,
                         req.user_email)
                      EXCEPT !.req_message = req.message,
                             !.wrote = turn[t].wrote]
    /\ turn' = [turn EXCEPT ![t] = IdleTurn]
    /\ UNCHANGED <<users, sessions, messages, sqlite_sequence, minted>>

----------------------------------------------------------------------------
(* POST /api/chat/session *)

\* request.session_id or str(uuid.uuid4())
Falsy(session_id) == session_id = None \/ session_id = ""

GetOrCreateSession(req_session_id, user_email, now) ==
    /\ Falsy(req_session_id) => minted < MaxUuid
    /\ Writers = {}
    /\ LET session_id == IF Falsy(req_session_id) THEN Uuid(minted + 1)
                         ELSE req_session_id
           e == EnsureSession(session_id, user_email, now)
       IN  /\ minted' = IF Falsy(req_session_id) THEN minted + 1 ELSE minted
           /\ users' = e.users
           /\ sessions' = e.sessions
           /\ last' =
                IF e.ok
                THEN [Step("session", 200, "", req_session_id, user_email)
                        EXCEPT !.session_id = session_id,
                               !.chat_history =
                                   ChatMessages(ListMessages(session_id)),
                               !.message_count = CountMessages(session_id),
                               !.start_time =
                                   SelectStartTime(e.sessions, session_id),
                               !.created = e.created,
                               !.wrote = (e.users # users \/ e.sessions # sessions),
                               !.rowsBefore = RowsWithId(sessions, session_id),
                               !.prev = Before(req_session_id, user_email)]
                ELSE [Step("session", 500, "IntegrityError", req_session_id,
                           user_email)
                        EXCEPT !.rowsBefore = RowsWithId(sessions, session_id),
                               !.prev = Before(req_session_id, user_email)]
    /\ UNCHANGED <<messages, sqlite_sequence, turn>>

----------------------------------------------------------------------------
(* POST /api/chat/clear *)

\* Faulty variant of ClearSession: only the session row is deleted
ClearSessionRowOnly(session_id) ==
    /\ sessions' = {s \in sessions : s.session_id # session_id}
    /\ last' = [Step("clear", 200, "", session_id, None)
                  EXCEPT !.rowsBefore = RowsWithId(sessions, session_id)]
    /\ UNCHANGED <<users, messages, sqlite_sequence, minted, turn>>

\* Faulty variant of ClearSession: DELETE FROM messages without its WHERE clause
ClearSessionAllMessages(session_id) ==
    /\ Writers = {}
    /\ messages' = {}
    /\ sessions' = {s \in sessions : s.session_id # session_id}
    /\ last' = [Step("clear", 200, "", session_id, None)
                  EXCEPT !.msgDelta = Cardinality(messages') - Cardinality(messages),
                         !.rowsBefore = RowsWithId(sessions, session_id)]
    /\ UNCHANGED <<users, sqlite_sequence, minted, turn>>

ClearSession(session_id) ==
    /\ Writers = {}
    /\ messages' = {m \in messages : m.session_id # session_id}
    /\ sessions' = {s \in sessions : s.session_id # session_id}
    /\ last' = [Step("clear", 200, "", session_id, None)
                  EXCEPT !.msgDelta = Cardinality(messages') - Cardinality(messages),
                         !.rowsBefore = RowsWithId(sessions, session_id)]
    /\ UNCHANGED <<users, sqlite_sequence, minted, turn>>

----------------------------------------------------------------------------
(* GET /api/user/sessions/{user_email} *)

\* Faulty variant of UserSessionRows: JOIN in place of LEFT JOIN, a session
\* without messages has no row in the join
UserSessionRowsInnerJoin(user_email) ==
    {[session_id |-> s.session_id, title |-> s.title,
      start_time |-> s.start_time,
      message_count |-> Cardinality({m \in messages :
                                        m.session_id = s.session_id})] :
        s \in {r \in sessions : /\ r.user_email = user_email
                                /\ \E m \in messages :
                                      m.session_id = r.session_id}}

\* SELECT s.session_id, s.title, s.start_time, COUNT(m.id) FROM sessions s
\* LEFT JOIN messages m ON s.session_id = m.session_id
\* WHERE s.user_email = ? GROUP BY s.session_id
UserSessionRows(user_email) ==
    {[session_id |-> s.session_id, title |-> s.title,
      start_time |-> s.start_time,
      message_count |-> Cardinality({m \in messages :
                                        m.session_id = s.session_id})] :
        s \in {r \in sessions : r.user_email = user_email}}

\* ORDER BY s.start_time DESC: the results the statement may give; rows with
\* an equal start_time come in an order SQL leaves open
OrderByStartTimeDesc(rows) ==
    {list \in [1..Cardinality(rows) -> rows] :
        /\ \A i, j \in 1..Cardinality(rows) : i # j => list[i] # list[j]
        /\ \A i, j \in 1..Cardinality(rows) :
              i < j => list[i].start_time >= list[j].start_time}

GetUserSessions(user_email) ==
    /\ \E list \in OrderByStartTimeDesc(UserSessionRows(user_email)) :
          last' = [Step("sessions", 200, "", None, user_email)
                     EXCEPT !.sessions = list]
    /\ UNCHANGED <<users, sessions, messages, sqlite_sequence, minted, turn>>

----------------------------------------------------------------------------
(* History variables, recorded by the specifications whose properties read *)
(* them and left alone by the others                                       *)

TrackOwner == firstOwner' = RecordOwner(sessions')

TrackTurns ==
    turnsSince' =
        IF last'.op = "send" /\ last'.status = 200
        THEN [turnsSince EXCEPT ![last'.session_id] = @ + 1]
        ELSE IF last'.op = "clear"
        THEN [turnsSince EXCEPT ![last'.req_session_id] = 0]
        ELSE turnsSince

TrackRace ==
    LET done == {t \in Turns : turn[t].pc = "calling" /\ turn'[t].pc = "idle"}
        t == CHOOSE t \in done : TRUE
        peers == {q \in Turns \ {t} :
                     /\ turn[q].pc = "calling"
                     /\ turn[q].req.session_id = turn[t].req.session_id
                     /\ turn[q].history = turn[t].history}
    IN  race' =
          IF done # {} /\ last'.op = "send" /\ last'.status = 200
          THEN IF race.phase = "first" /\ race.waiting = t
               THEN [race EXCEPT !.phase = "both",
                                 !.second_count = last'.message_count,
                                 !.second_id = sqlite_sequence']
               ELSE IF peers # {}
               THEN [NoRace EXCEPT !.phase = "first",
                                   !.waiting = CHOOSE q \in peers : TRUE,
                                   !.session_id = last'.session_id,
                                   !.first_count = last'.message_count,
                                   !.first_id = sqlite_sequence']
               ELSE race
          ELSE IF done # {} /\ race.phase = "first" /\ race.waiting \in done
          THEN NoRace
          ELSE IF /\ last'.op = "clear" /\ race.phase = "first"
                  /\ last'.req_session_id = race.session_id
          THEN [race EXCEPT !.cleared = TRUE]
          ELSE race

----------------------------------------------------------------------------
(* Specifications: the handlers over the callers and request values of a   *)
(* scope, each step with the scope's update of the history variables       *)

\* Several worker processes: concurrent turns of one user on two sessions,
\* with the request defaults
TurnHistory == TrackTurns /\ UNCHANGED <<firstOwner, race>>

Next ==
    \/ \E t \in Turns, u \in {"u1"}, id \in {"s1", "s2"}, m \in Texts,
          p \in {DefaultPersona}, w \in {DefaultMemoryLength}, now \in {1} :
          SendEnsure(t, SendMessageRequest(m, id, p, w, u), now) /\ TurnHistory
    \/ \E t \in Turns : SendRead(t) /\ TurnHistory
    \/ \E t \in Turns, reply \in Replies, now \in {1} :
          SendStore(t, reply, now) /\ TurnHistory
    \/ \E t \in Turns : ProviderFail(t) /\ TurnHistory
    \/ \E id \in {"s1"}, u \in {"u1"}, now \in {1} :
          GetOrCreateSession(id, u, now) /\ TurnHistory
    \/ \E id \in {"s1", "s2"} : ClearSession(id) /\ TurnHistory

Spec == Init /\ [][Next]_vars

\* One caller and one session, every persona and window size
NoHistory == UNCHANGED <<firstOwner, turnsSince, race>>

NextWindow ==
    \/ \E t \in {1}, u \in {"u1"}, id \in {"s1"}, m \in Texts,
          p \in Personas, w \in Windows, now \in {1} :
          SendEnsure(t, SendMessageRequest(m, id, p, w, u), now) /\ NoHistory
    \/ \E t \in {1} : SendRead(t) /\ NoHistory
    \/ \E t \in {1}, reply \in Replies, now \in Times :
          SendStore(t, reply, now) /\ NoHistory
    \/ \E t \in {1} : ProviderFail(t) /\ NoHistory
    \/ \E id \in {None, "s1"}, u \in {"u1"}, now \in {1} :
          GetOrCreateSession(id, u, now) /\ NoHistory
    \/ \E id \in {"s1"} : ClearSession(id) /\ NoHistory

SpecWindow == Init /\ [][NextWindow]_vars

\* A single worker process (uvicorn.run(app), line 274): the handlers are
\* coroutines without an await, so the event loop runs each to its end
RunToCompletion == InFlight # {} => turn' # turn

\* Two users; explicit, empty and minted session ids
Serial == RunToCompletion /\ UNCHANGED <<firstOwner, turnsSince, race>>

NextRegistry ==
    \/ \E t \in {1}, u \in Users, id \in {"s1"}, m \in {"Hello"},
          p \in {DefaultPersona}, w \in {DefaultMemoryLength}, now \in Times :
          SendEnsure(t, SendMessageRequest(m, id, p, w, u), now) /\ Serial
    \/ \E t \in {1} : SendRead(t) /\ Serial
    \/ \E t \in {1}, reply \in Replies, now \in {1} :
          SendStore(t, reply, now) /\ Serial
    \/ \E t \in {1} : ProviderFail(t) /\ Serial
    \/ \E id \in {"", "s1"} \cup MintedIds, u \in Users, now \in Times :
          GetOrCreateSession(id, u, now) /\ Serial
    \/ \E id \in {"", "s1"} \cup MintedIds : ClearSession(id) /\ Serial

SpecRegistry == Init /\ [][NextRegistry]_vars

\* Two users contending for one session id
OwnerHistory == TrackOwner /\ UNCHANGED <<turnsSince, race>>

NextOwner ==
    \/ \E t \in {1}, u \in Users, id \in {"s1"}, m \in {"Hello"},
          p \in {DefaultPersona}, w \in {DefaultMemoryLength}, now \in Times :
          SendEnsure(t, SendMessageRequest(m, id, p, w, u), now) /\ OwnerHistory
    \/ \E t \in {1} : SendRead(t) /\ OwnerHistory
    \/ \E t \in {1}, reply \in Replies, now \in {1} :
          SendStore(t, reply, now) /\ OwnerHistory
    \/ \E t \in {1} : ProviderFail(t) /\ OwnerHistory
    \/ \E id \in {"s1"}, u \in Users, now \in Times :
          GetOrCreateSession(id, u, now) /\ OwnerHistory
    \/ \E id \in {"s1"} : ClearSession(id) /\ OwnerHistory

SpecOwner == Init /\ [][NextOwner]_vars

\* Two worker processes serving turns of one user on one session
RaceHistory == TrackRace /\ UNCHANGED <<firstOwner, turnsSince>>

NextRace ==
    \/ \E t \in Turns, u \in {"u1"}, id \in {"s1"}, m \in Texts,
          p \in {DefaultPersona}, w \in {DefaultMemoryLength}, now \in {1} :
          SendEnsure(t, SendMessageRequest(m, id, p, w, u), now) /\ RaceHistory
    \/ \E t \in Turns : SendRead(t) /\ RaceHistory
    \/ \E t \in Turns, reply \in Replies, now \in {1} :
          SendStore(t, reply, now) /\ RaceHistory
    \/ \E t \in Turns : ProviderFail(t) /\ RaceHistory
    \/ \E id \in {"s1"}, u \in {"u1"}, now \in {1} :
          GetOrCreateSession(id, u, now) /\ RaceHistory
    \/ \E id \in {"s1"} : ClearSession(id) /\ RaceHistory

SpecRace == Init /\ [][NextRace]_vars

\* Two users, each sending a text of its own, on shared session ids; one turn
\* at a time, with lookups, listings and clears from other worker processes
\* between its steps
NextTenants ==
    \/ \E t \in {1}, u \in Users, id \in {"s1"},
          p \in {DefaultPersona}, w \in {DefaultMemoryLength}, now \in {1} :
          SendEnsure(t, SendMessageRequest(TextOf[u], id, p, w, u), now) /\ NoHistory
    \/ \E t \in {1} : SendRead(t) /\ NoHistory
    \/ \E t \in {1}, reply \in Replies, now \in {1} :
          SendStore(t, reply, now) /\ NoHistory
    \/ \E t \in {1} : ProviderFail(t) /\ NoHistory
    \/ \E id \in {"s1", "s2"}, u \in Users, now \in Times :
          GetOrCreateSession(id, u, now) /\ NoHistory
    \/ \E id \in {"s1", "s2"} : ClearSession(id) /\ NoHistory
    \/ \E u \in Users : GetUserSessions(u) /\ NoHistory

SpecTenants == Init /\ [][NextTenants]_vars

----------------------------------------------------------------------------
(* Properties of the prompt a turn sends to the provider *)

Calling == {t \in Turns : turn[t].pc = "calling"}

SystemEntry(persona) == [role |-> "system", content |-> get_custom_prompt(persona)]
UserEntry(text) == [role |-> "user", content |-> text]
AssistantEntry(text) == [role |-> "assistant", content |-> text]

\* system, then the last k entries as user/assistant pairs, then the new message
ExpectedPrompt(persona, history, k, message) ==
    [j \in 1..(2 + 2 * k) |->
        IF j = 1 THEN SystemEntry(persona)
        ELSE IF j = 2 + 2 * k THEN UserEntry(message)
        ELSE LET e == history[Len(history) - k + (j \div 2)]
             IN  IF j % 2 = 0 THEN UserEntry(e.human) ELSE AssistantEntry(e.ai)]

\* C1: for every window size that is 0 or negative and every stored history,
\* the prompt of a turn is exactly the system entry followed by the user
\* entry holding the new message; no prior exchange appears in it.
C1_NonPositiveWindowSendsNoHistory ==
    \A t \in Calling :
        turn[t].req.memory_length <= 0 =>
            turn[t].messages =
                <<SystemEntry(turn[t].req.persona), UserEntry(turn[t].req.message)>>

\* C2: for every window size N >= 1 and every stored history of length L the
\* prompt is the system entry, the last min(N, L) history entries in stored
\* order as user/assistant pairs, and the new message as the final user
\* entry; its length is 2 + 2 * min(N, L).
C2_WindowIsSuffixOfHistory ==
    \A t \in Calling :
        LET req == turn[t].req
            k == Min(req.memory_length, Len(turn[t].history))
        IN  req.memory_length >= 1 =>
                /\ turn[t].messages =
                       ExpectedPrompt(req.persona, turn[t].history, k, req.message)
                /\ Len(turn[t].messages) = 2 + 2 * k

\* A window of 1 over a history of two different exchanges
C2_Witness ==
    \E t \in Calling :
        /\ turn[t].req.memory_length = 1
        /\ Len(turn[t].history) = 2
        /\ turn[t].history[1] # turn[t].history[2]
        /\ turn[t].req.persona = "Expert"

\* C13: for every persona identifier outside {Default, Expert, Creative}
\* persona resolution returns the Default system instruction and the turn
\* goes on to the provider with it; for each of the three known identifiers
\* it returns that persona's own instruction, the three being different.
C13_UnknownPersonaResolvesToDefault ==
    /\ \A t \in Calling :
          LET persona == turn[t].req.persona
              system == turn[t].messages[1]
          IN  /\ system.role = "system"
              /\ persona = "Default" => system.content = DefaultInstruction
              /\ persona = "Expert" => system.content = ExpertInstruction
              /\ persona = "Creative" => system.content = CreativeInstruction
              /\ persona \notin {"Default", "Expert", "Creative"} =>
                    system.content = DefaultInstruction
    /\ Cardinality({DefaultInstruction, ExpertInstruction, CreativeInstruction}) = 3

\* A turn whose persona differs from a known one by case only
C13_Witness ==
    \E t \in Calling :
        /\ turn[t].req.persona = "expert"
        /\ turn[t].messages[1].content = DefaultInstruction
        /\ Len(turn[t].history) > 0

----------------------------------------------------------------------------
(* Properties of the message store *)

NonDecreasing(rows) ==
    \A i, j \in 1..Len(rows) :
        i < j => /\ rows[i].timestamp <= rows[j].timestamp
                 /\ rows[i].timestamp = rows[j].timestamp => rows[i].id < rows[j].id

----------------------------------------------------------------------------
(* Properties of the session registry *)

SessionCall == last.op = "session"

\* The call right before was POST /chat/session with the same id and user
RepeatedCall ==
    /\ SessionCall
    /\ last.prev.op = "session"
    /\ last.req_session_id # None

SameRowAsBefore ==
    /\ RowsWithId(sessions, last.session_id) = last.rowsBefore
    /\ Cardinality(RowsWithId(sessions, last.session_id)) = 1

\* C3 as stated: two calls of getOrCreateSession, one after the other, with
\* the same explicit session id and user id return the same session id, leave
\* exactly one row for the id, and the second leaves the row unchanged.
C3_RepeatedCallReturnsSameSession ==
    RepeatedCall =>
        /\ last.prev.status = 200
        /\ last.status = 200
        /\ last.session_id = last.prev.session_id
        /\ SameRowAsBefore

\* C3 as amended: for a non-empty explicit session id, when the first call
\* succeeds the second succeeds, returns the same session id and leaves the
\* single row of that id unchanged; when the first fails (the id belongs to
\* another user's session) the second fails too and that row is unchanged.
C3_RepeatedCallNonEmptyId ==
    (RepeatedCall /\ last.req_session_id # "") =>
        /\ last.status = last.prev.status
        /\ last.status = 200 =>
              /\ last.session_id = last.req_session_id
              /\ last.session_id = last.prev.session_id
              /\ ~last.created
              /\ SameRowAsBefore
        /\ last.status = 500 =>
              /\ RowsWithId(sessions, last.req_session_id) = last.rowsBefore
              /\ Cardinality(last.rowsBefore) = 1

C3_Witness ==
    /\ RepeatedCall
    /\ last.req_session_id = "s1"
    /\ last.status = 200
    /\ last.prev.status = 200
    /\ last.message_count > 0

OwnedByAnother ==
    \E r \in last.rowsBefore : r.user_email # last.req_user_email

\* C5: getOrCreateSession with an explicit session id whose row is owned by a
\* different user never returns that session: the caller receives neither its
\* history, message count nor start time, and the row's owner is unchanged;
\* the same holds for the session-ensure step of a turn.
C5_OtherUsersSessionNotReturned ==
    /\ (SessionCall /\ OwnedByAnother) =>
          /\ last.status = 500
          /\ last.session_id = None
          /\ last.chat_history = <<>>
          /\ last.message_count = 0
          /\ last.start_time = 0
          /\ RowsWithId(sessions, last.req_session_id) = last.rowsBefore
    /\ (last.op = "send" /\ OwnedByAnother) =>
          /\ last.status = 500
          /\ last.response = ""
          /\ RowsWithId(sessions, last.req_session_id) = last.rowsBefore
    /\ SessionCall /\ last.status = 200 =>
          \A r \in RowsWithId(sessions, last.session_id) :
              r.user_email = last.req_user_email

C5_Witness ==
    /\ SessionCall
    /\ OwnedByAnother
    /\ CountMessages(last.req_session_id) > 0

\* C9: POST /chat/clear on a session followed by POST /chat/session with the
\* same id returns a fresh empty session: empty history, message count 0, and
\* a row created by this call, whose start time is the one returned.
C9_SessionAfterClearIsFresh ==
    (SessionCall /\ last.prev.op = "clear") =>
        /\ last.status = 200
        /\ last.req_session_id # "" => last.session_id = last.req_session_id
        /\ last.chat_history = <<>>
        /\ last.message_count = 0
        /\ last.created
        /\ last.rowsBefore = {}
        /\ RowsWithId(sessions, last.session_id) =
              {[session_id |-> last.session_id,
                user_email |-> last.req_user_email,
                title |-> Title(last.start_time),
                start_time |-> last.start_time]}

\* The cleared session had messages and another start time
C9_Witness ==
    /\ SessionCall
    /\ last.prev.op = "clear"
    /\ last.prev.msgDelta < 0
    /\ \E r \in last.prev.rows : r.start_time # last.start_time

\* C10 as stated: the owner recorded for a session id never changes from the
\* user that first created it, over every sequence of operations.
C10_OwnerIsFirstCreator ==
    \A s \in sessions : s.user_email = firstOwner[s.session_id]

\* C10 as amended: no operation changes the owner of an existing session
\* row, and an id never has two rows; the id passes to another user only by
\* a clear followed by a new creation.
C10_OwnerFixedWhileRowExists ==
    [][/\ \A a \in sessions, b \in sessions' :
            a.session_id = b.session_id => b.user_email = a.user_email
       /\ \A a, b \in sessions' :
            a.session_id = b.session_id => a = b]_vars

\* Another user asked for an existing session and was refused
C10_Witness ==
    /\ last.error = "IntegrityError"
    /\ OwnedByAnother
    /\ \A r \in last.rowsBefore : firstOwner[r.session_id] = r.user_email

----------------------------------------------------------------------------
(* Properties of a turn *)

ProviderFailed == last.op = "send" /\ last.error = "ProviderError"

\* C6 as stated: if the provider call of a turn fails, the turn fails and the
\* persisted state (users, sessions, messages) is as before the turn began.
C6_FailedTurnWroteNothing ==
    ProviderFailed => last.status = 500 /\ ~last.wrote /\ last.msgDelta = 0

\* C6 as amended: if the provider call of a turn fails, the turn fails and no
\* message is appended: the failing step leaves the three tables and the id
\* counter as they were (the user and session rows committed by the ensure
\* step of the turn stay).
C6_FailedTurnAppendsNothing ==
    [][(last'.op = "send" /\ last'.error = "ProviderError"
          /\ \E t \in Turns : turn[t].pc = "calling" /\ turn'[t].pc = "idle")
        => /\ last'.status = 500
           /\ last'.response = ""
           /\ messages' = messages
           /\ sqlite_sequence' = sqlite_sequence
           /\ users' = users
           /\ sessions' = sessions]_vars

\* A failed turn whose ensure step had created its session, which stays
C6_Witness ==
    /\ ProviderFailed
    /\ last.wrote
    /\ SelectSession(last.req_session_id, last.req_user_email) # {}
    /\ \E t \in Turns : turn[t].pc = "calling"

TurnSucceeded == last.op = "send" /\ last.status = 200

\* C7: every successful turn appends exactly one message to its session,
\* holding the request's human text and the provider's reply, and returns
\* the number of messages then stored for the session; after k successful
\* turns on a session with no clear in between it holds exactly k messages.
C7_OneMessagePerSuccessfulTurn ==
    /\ \A id \in AllIds : CountMessages(id) = turnsSince[id]
    /\ TurnSucceeded =>
          /\ last.msgDelta = 1
          /\ last.message_count = CountMessages(last.session_id)
          /\ last.message_count >= 1
          /\ \E m \in MessagesOf(last.session_id) :
                /\ m.id = sqlite_sequence
                /\ m.human = last.req_message
                /\ m.ai = last.response
                /\ \A q \in messages : q.id = m.id => q = m
                /\ MessagesOf(last.session_id) = {m} => last.message_count = 1

\* The second of two successful turns on a session, another turn in flight
C7_Witness ==
    /\ TurnSucceeded
    /\ last.message_count = 2
    /\ turnsSince[last.session_id] = 2
    /\ \E a, b \in MessagesOf(last.session_id) : a.human # b.human
    /\ InFlight # {}

\* C14: no turn holds a store transaction or the write lock while its
\* provider call is pending: the ensure step is committed and the history
\* read finished before the provider is invoked, the append starts after it
\* has returned, so while a turn waits on the provider another handler's
\* store write is not held back.
C14_NoTransactionAcrossProviderCall ==
    /\ \A t \in Turns : turn[t].pc \in {"ensured", "calling"} => ~turn[t].txn
    /\ Calling # {} => Writers = {}
    /\ \A t \in InFlight : turn[t].req.user_email \in users

\* While one turn waits on the provider another turn appended to its session
C14_Witness ==
    \E t \in Calling :
        /\ TurnSucceeded
        /\ last.session_id = turn[t].req.session_id
        /\ last.message_count = 2

\* The step just taken is the append of the second of two turns that had
\* read the same history of one session
RaceDone ==
    /\ race.phase = "both"
    /\ TurnSucceeded
    /\ race.second_id = sqlite_sequence

Stored(session_id, id) == \E m \in MessagesOf(session_id) : m.id = id

\* C15 as stated: whenever two turns against the same session built their
\* prompt from the same history snapshot and both then appended, both
\* exchanges are stored and the two turns returned different message counts.
C15_BothAppendsStoredCountsDiffer ==
    RaceDone =>
        /\ Stored(race.session_id, race.first_id)
        /\ Stored(race.session_id, race.second_id)
        /\ race.first_count # race.second_count

\* C15 as amended: the second append is always stored; when the session was
\* not cleared between the two appends the first exchange is stored as well
\* and the second turn returned a larger count; a clear between the two
\* appends has removed the first exchange.
C15_BothAppendsStoredUnlessCleared ==
    RaceDone =>
        /\ race.first_id # race.second_id
        /\ Stored(race.session_id, race.second_id)
        /\ race.second_count = CountMessages(race.session_id)
        /\ ~race.cleared =>
              /\ Stored(race.session_id, race.first_id)
              /\ race.second_count > race.first_count
        /\ race.cleared => ~Stored(race.session_id, race.first_id)

\* Two turns read the same history and both appended, no clear in between
C15_Witness ==
    /\ RaceDone
    /\ ~race.cleared
    /\ race.first_count = 1
    /\ race.second_count = 2

----------------------------------------------------------------------------
(* Properties of the store under clears *)

\* C16: in every reachable state, including when a clear interleaves with a
\* turn that is waiting on the provider, every stored message's session id
\* is the id of an existing session row.
C16_EveryMessageHasItsSession ==
    \A m \in messages : RowsWithId(sessions, m.session_id) # {}

\* C17: no operation changes the human text, AI text, timestamp or session
\* id of an existing message: a message that exists before a step either
\* exists unchanged after it or has been removed by a clear of its own
\* session, and a message id is never given to another message.
C17_MessagesImmutable ==
    [][/\ \A m \in messages :
            \/ m \in messages'
            \/ /\ last'.op = "clear"
               /\ last'.req_session_id = m.session_id
               /\ \A q \in messages' : q.id # m.id
       /\ \A a \in messages, b \in messages' : a.id = b.id => a = b
       /\ \A b \in messages' \ messages : b.id > sqlite_sequence]_vars

\* A clear removed one session's message and left two of another session
C17_Witness ==
    /\ last.op = "clear"
    /\ last.msgDelta = -1
    /\ Cardinality(messages) = 2

OtherSessions(rows, session_id) == {s \in rows : s.session_id # session_id}
OtherMessages(rows, session_id) == {m \in rows : m.session_id # session_id}

----------------------------------------------------------------------------
(* Properties across users *)

\* C11: under every interleaving of turns, session lookups and clears, the
\* history returned to user u by POST /chat/session and the history placed
\* in the prompt of a turn requested by user u contain only exchanges written
\* by turns that user u requested.
C11_HistoryIsCallersOwn ==
    /\ (SessionCall /\ last.status = 200) =>
          \A i \in 1..Len(last.chat_history) :
              last.chat_history[i].human = TextOf[last.req_user_email]
    /\ \A t \in Calling :
          \A i \in 1..Len(turn[t].history) :
              turn[t].history[i].human = TextOf[turn[t].req.user_email]

\* C12: listing the sessions of a user returns exactly the sessions owned by
\* that user, each once, newest start time first, each with the title and
\* start time of its row and with the number of messages currently stored
\* for it (0 for a session with no messages).
C12_ListingIsUsersSessionsNewestFirst ==
    last.op = "sessions" =>
        LET list == last.sessions
            owned == {s \in sessions : s.user_email = last.req_user_email}
        IN  /\ last.status = 200
            /\ {list[i].session_id : i \in 1..Len(list)} =
                  {s.session_id : s \in owned}
            /\ Len(list) = Cardinality(owned)
            /\ \A i, j \in 1..Len(list) :
                  i < j => list[i].start_time >= list[j].start_time
            /\ \A i \in 1..Len(list) :
                  /\ list[i].message_count = CountMessages(list[i].session_id)
                  /\ \E s \in owned :
                        /\ s.session_id = list[i].session_id
                        /\ s.title = list[i].title
                        /\ s.start_time = list[i].start_time

\* A user with an older session holding messages and a newer empty one,
\* while the other user has listed nothing of it
C12_Witness ==
    /\ last.op = "sessions"
    /\ Len(last.sessions) = 2
    /\ last.sessions[1].start_time > last.sessions[2].start_time
    /\ last.sessions[1].message_count = 0
    /\ last.sessions[2].message_count = 2

====
